---- MODULE Spec2Model ----
(***************************************************************************)
(* Tokyo trip planner (src/tokyo_planner.py, src/db_setup.py).             *)
(*                                                                         *)
(* The planner is a Streamlit script: every user action runs main() once,  *)
(* top to bottom (a "pass").  A pass reads t_places, merges the selected   *)
(* suggestion, shows the table in the data editor, draws the map, renders  *)
(* the seven day tabs and finally overwrites t_places with the edited      *)
(* view.  One action of this module is one whole pass; what the pass       *)
(* computed on its way (its local variables) is kept in the state so that  *)
(* properties of the pass can be stated.                                   *)
(*                                                                         *)
(* Encoding.  Coordinates are integers in microdegrees.  A missing value   *)
(* (None / NULL / NaN) is NULL in a text column and NoNum in a numeric     *)
(* column; is_active is "true", "false" or NULL.  A table is a bag of      *)
(* rows: neither SELECT DISTINCT nor ORDER BY fixes the order of rows that *)
(* tie, so every read of a table picks one of the orders SQL allows.       *)
(*                                                                         *)
(* Specifications.  Spec: the planner from the seeded table, with every    *)
(* kind of change and with failing writes and lookups.  SpecCurating: the  *)
(* same without failures, the user accepting, switching and deleting       *)
(* places.  SpecBusyDay: the planner from a table with nine places on one  *)
(* day, the user adding rows.                                              *)
(***************************************************************************)
EXTENDS Integers, Sequences, FiniteSets, Bags, TLC

\* ------------------------------------------------------------------ bounds
MaxPlaces == 1      \* suggestions the search can offer
MaxChanges == 2     \* entries of one change set of the editor
MaxOrder == 2       \* trip_order values the user types: 1..MaxOrder
MaxNullRows == 2    \* rows without place_id a table may hold

\* --------------------------------------------------------------- constants
NULL == "NULL"
NoNum == -1

TOKYO_CENTRE == <<35681483, 139767762>>

CATEGORY == <<"restaurant", "sight-seeing", "hotel", "shopping">>

WEEK == <<"Monday", "Tuesday", "Wednesday", "Thursday", "Friday", "Saturday", "Sunday">>

WeekDays == {WEEK[i] : i \in 1..Len(WEEK)}

\* The values the user picks in the editor's day and category select boxes.
EditDays == {WEEK[1]}
EditCats == {CATEGORY[1]}
EditOrders == 1..MaxOrder
EditActive == {"true", "false"}

Columns == {"place_id", "name", "address", "lat", "lon", "is_active", "day", "trip_order", "category"}

Row(pid, nm, addr, la, lo, act, d, ord, cat) ==
    [place_id |-> pid, name |-> nm, address |-> addr, lat |-> la, lon |-> lo,
     is_active |-> act, day |-> d, trip_order |-> ord, category |-> cat]

\* db_setup.py: the one seeded row, every other column at its default.
SeedRow == Row("", "Tokyo Center", "", TOKYO_CENTRE[1], TOKYO_CENTRE[2], "false", "", 1, "sight-seeing")

\* ------------------------------------------------------------- suggestions
PlaceNumbers == 1..MaxPlaces

PlaceId(i) == "place_" \o ToString(i)

\* One option of the select box: (place_id, place_name, address, lat, lon).
Suggestion(i) ==
    <<PlaceId(i), "name_" \o ToString(i), "address_" \o ToString(i),
      35000000 + (i - 1) * 1000000, 139000000 + (i - 1) * 1000000>>

Suggestions == {Suggestion(i) : i \in PlaceNumbers}

NoSelection == <<>>

\* ------------------------------------------------------------------ tables
Ids(rows) == {r.place_id : r \in BagToSet(rows)}

RECURSIVE SeqToBag(_)
SeqToBag(s) == IF s = <<>> THEN EmptyBag ELSE SeqToBag(Tail(s)) (+) SetToBag({Head(s)})

\* "order by day, trip_order": day as text, NULL trip_order last.
DayRank(d) ==
    CASE d = "" -> 0
      [] d = "Friday" -> 1
      [] d = "Monday" -> 2
      [] d = "Saturday" -> 3
      [] d = "Sunday" -> 4
      [] d = "Thursday" -> 5
      [] d = "Tuesday" -> 6
      [] d = "Wednesday" -> 7
      [] OTHER -> 8

OrderBefore(a, b) == a # NoNum /\ (b = NoNum \/ a < b)

SortsBefore(a, b) ==
    \/ DayRank(a.day) < DayRank(b.day)
    \/ a.day = b.day /\ OrderBefore(a.trip_order, b.trip_order)

\* Every sequence of the rows of bag B that "order by day, trip_order" may return.
RECURSIVE OrderByDayTripOrder(_)
OrderByDayTripOrder(B) ==
    IF B = EmptyBag THEN {<<>>}
    ELSE LET S == BagToSet(B)
             firsts == {r \in S : \A q \in S : ~SortsBefore(q, r)}
         IN UNION {{<<r>> \o t : t \in OrderByDayTripOrder(B (-) SetToBag({r}))} : r \in firsts}

Dropped == [exists |-> FALSE, rows |-> EmptyBag]
Table(rows) == [exists |-> TRUE, rows |-> rows]

\* ------------------------------------------------------------ merge engine
\* places_beginning.filter(place_id == selected_location[0]).height == 0
NeedsInsert(pb, sel) ==
    sel # NoSelection /\ \A r \in BagToSet(pb) : r.place_id # sel[1]

\* A new entry that takes the table's column default for is_active;
\* C3_FreshAcceptAddsOne tells it from NewEntry.
NewEntryInactive(sel) == Row(sel[1], sel[2], sel[3], sel[4], sel[5], "false", "", 1, "")

NewEntry(sel) == Row(sel[1], sel[2], sel[3], sel[4], sel[5], "true", "", 1, "")

\* A merge that writes the selection over the record already stored under its
\* place id (an upsert); C2_MergeKeepsExisting tells it from Merge.
MergeUpsert(pb, sel) ==
    IF sel = NoSelection THEN pb
    ELSE SetToBag({r \in BagToSet(pb) : r.place_id # sel[1]} \cup {NewEntry(sel)})

\* The rows of t_places after the merge step: untouched when the place is
\* already there, else "select distinct *" of the old rows plus the new one.
Merge(pb, sel) ==
    IF NeedsInsert(pb, sel)
    THEN SetToBag(BagToSet(pb) \cup {NewEntry(sel)})
    ELSE pb

\* ------------------------------------------------------------- data editor
\* A change set is a set of entries:
\*   <<"edit", row, column, value>>   edited_rows[row][column] = value
\*   <<"delete", row>>                row in deleted_rows
\*   <<"add", day, category>>         one added row; day and category are
\*                                    required, the disabled columns stay empty
EditValues(col) ==
    CASE col = "is_active" -> EditActive
      [] col = "day" -> EditDays
      [] col = "trip_order" -> EditOrders
      [] col = "category" -> EditCats

EditableColumns == {"is_active", "day", "trip_order", "category"}

NullRows(view) == Cardinality({p \in 1..Len(view) : view[p].place_id = NULL})

Entries(view, cols) ==
    UNION {{<<"edit", p, c, v>> : p \in 1..Len(view), v \in EditValues(c)} : c \in cols}
    \cup {<<"delete", p>> : p \in 1..Len(view)}
    \cup {<<"add", d, c>> : d \in EditDays, c \in EditCats}

\* An edit changes the cell; a row is added only below the bound on such rows.
ValidEntry(view, e) ==
    CASE e[1] = "edit" -> view[e[2]][e[3]] # e[4]
      [] e[1] = "delete" -> TRUE
      [] e[1] = "add" -> NullRows(view) < MaxNullRows

\* The subsets of S with at most k elements.
RECURSIVE UpTo(_, _)
UpTo(S, k) ==
    IF k = 0 \/ S = {} THEN {{}}
    ELSE LET x == CHOOSE y \in S : TRUE
         IN UpTo(S \ {x}, k) \cup {T \cup {x} : T \in UpTo(S \ {x}, k - 1)}

OneValuePerCell(cs) ==
    \A a \in cs : \A b \in cs :
        (a[1] = "edit" /\ b[1] = "edit" /\ a[2] = b[2] /\ a[3] = b[3]) => a = b

OneAddedRow(cs) == Cardinality({a \in cs : a[1] = "add"}) <= 1

ChangeSets(view, cols) ==
    {cs \in UpTo({e \in Entries(view, cols) : ValidEntry(view, e)}, MaxChanges) :
        OneValuePerCell(cs) /\ OneAddedRow(cs)}

CellEdits(cs, p) == {a \in cs : a[1] = "edit" /\ a[2] = p}

ApplyCellEdits(row, es) ==
    [c \in DOMAIN row |->
        IF \E a \in es : a[3] = c THEN (CHOOSE a \in es : a[3] = c)[4] ELSE row[c]]

DeletedRows(cs) == {a[2] : a \in {b \in cs : b[1] = "delete"}}

RECURSIVE DropRows(_, _, _)
DropRows(rows, del, p) ==
    IF p > Len(rows) THEN <<>>
    ELSE (IF p \in del THEN <<>> ELSE <<rows[p]>>) \o DropRows(rows, del, p + 1)

AddedRow(a) == Row(NULL, NULL, NULL, NoNum, NoNum, NULL, a[2], NoNum, a[3])

RECURSIVE AddedRows(_)
AddedRows(adds) ==
    IF adds = {} THEN <<>>
    ELSE LET a == CHOOSE x \in adds : TRUE IN <<AddedRow(a)>> \o AddedRows(adds \ {a})

\* An editor that applies one entry of the change set and drops the others;
\* C5_WholeChangeSet tells it from data_editor.
data_editor_one_change(view, cs) ==
    LET one == IF cs = {} THEN {} ELSE {CHOOSE a \in cs : TRUE}
        edited == [p \in 1..Len(view) |-> ApplyCellEdits(view[p], CellEdits(one, p))]
    IN DropRows(edited, DeletedRows(one), 1) \o AddedRows({a \in one : a[1] = "add"})

\* What st.data_editor returns: the view with the whole change set applied,
\* cell edits first, then the deletions, then the added rows at the end.
data_editor(view, cs) ==
    LET edited == [p \in 1..Len(view) |-> ApplyCellEdits(view[p], CellEdits(cs, p))]
    IN DropRows(edited, DeletedRows(cs), 1) \o AddedRows({a \in cs : a[1] = "add"})

\* --------------------------------------------------------------------- map
\* select distinct name, lat, lon, day, category from places_displayed
\*   where lat is not null and lon is not null and is_active
LocationMarkers(df) ==
    {<<df[p].name, df[p].lat, df[p].lon, df[p].day, df[p].category>> :
        p \in {q \in 1..Len(df) : df[q].lat # NoNum /\ df[q].lon # NoNum /\ df[q].is_active = "true"}}

RECURSIVE SumOf(_, _)
SumOf(S, k) ==
    IF S = {} THEN 0
    ELSE LET x == CHOOSE y \in S : TRUE IN x[k] + SumOf(S \ {x}, k)

\* A map centred on the mean position of its markers; C6_CenterIsTokyoCentre
\* tells it from MapCenter.
MapCenterOfMarkers(markers) ==
    IF markers = {} THEN TOKYO_CENTRE
    ELSE <<SumOf(markers, 2) \div Cardinality(markers),
           SumOf(markers, 3) \div Cardinality(markers)>>

\* st_folium(m, feature_group_to_add=fg, center=TOKYO_CENTRE, ...)
MapCenter(markers) == TOKYO_CENTRE

\* ------------------------------------------------------------ make_schedule
\* The environment of one pass: at most one thing goes wrong.
\*   fault "none"         nothing fails
\*   fault "merge_write"  the merge step's create fails after its drop
\*   fault "end_write"    the final create fails after its drop
\*   fault "lookup"       the nearest-station lookup of `place` finds nothing
Envs(ids) ==
    {[fault |-> f, place |-> ""] : f \in {"none", "merge_write", "end_write"}}
    \cup {[fault |-> "lookup", place |-> id] : id \in ids}

NoFault == [fault |-> "none", place |-> ""]

RECURSIVE SelectDay(_, _)
SelectDay(rows, day) ==
    IF rows = <<>> THEN <<>>
    ELSE (IF Head(rows).day = day THEN <<Head(rows)>> ELSE <<>>) \o SelectDay(Tail(rows), day)

\* The orders in which "select * from df order by day, trip_order" may list
\* the rows of one day (pl_df.filter(pl.col("day") == day)).
DayRows(df, day) == OrderByDayTripOrder(SeqToBag(SelectDay(df, day)))

\* .select([lat, lon, name, place_id]).to_dict(as_series=False): a dict of
\* four lists.
PlaceIdsDict(rows) ==
    [lat |-> [i \in 1..Len(rows) |-> rows[i].lat],
     lon |-> [i \in 1..Len(rows) |-> rows[i].lon],
     name |-> [i \in 1..Len(rows) |-> rows[i].name],
     place_id |-> [i \in 1..Len(rows) |-> rows[i].place_id]]

\* ids_count = len(place_ids): the number of keys of the dict.
IdsCount(place_ids) == Cardinality(DOMAIN place_ids)

ColCount(place_ids) == IdsCount(place_ids) * 2

Min(a, b) == IF a <= b THEN a ELSE b

\* zip(name, place_id, lat, lon, st.columns(col_count)) stops at the shortest.
Zipped(place_ids) ==
    [i \in 1..Min(Len(place_ids.name), ColCount(place_ids)) |->
        <<place_ids.name[i], place_ids.place_id[i], place_ids.lat[i], place_ids.lon[i]>>]

\* get_nearest_station raises when places_nearby has no result (results[0]),
\* and on coordinates that are missing; gmaps.place raises for a row without
\* a place id.  Nothing in make_schedule or main catches it.
LookupRaises(place, env) ==
    \/ place[3] = NoNum \/ place[4] = NoNum
    \/ place[2] \in {"", NULL}
    \/ env.fault = "lookup" /\ env.place = place[2]

FirstRaise(places, env) ==
    LET bad == {i \in 1..Len(places) : LookupRaises(places[i], env)}
    IN IF bad = {} THEN 0 ELSE CHOOSE i \in bad : \A j \in bad : i <= j

\* The branch make_schedule takes: "match ids_count: case 0 / case _".
Branch(place_ids) == IF IdsCount(place_ids) = 0 THEN "No schedule yet" ELSE "columns"

\* One make_schedule call on the rows of its day: the branch it takes, the
\* places it has rendered (st.image) and whether a lookup raised, which ends
\* the whole run.
Render(rows, env) ==
    LET place_ids == PlaceIdsDict(rows)
        places == Zipped(place_ids)
        f == FirstRaise(places, env)
    IN IF Branch(place_ids) = "No schedule yet"
       THEN [branch |-> "No schedule yet", rendered |-> <<>>, raised |-> FALSE]
       ELSE [branch |-> "columns",
             rendered |-> IF f = 0 THEN places ELSE SubSeq(places, 1, f - 1),
             raised |-> f # 0]

make_schedule(df, day, env) == {Render(rows, env) : rows \in DayRows(df, day)}

\* The seven make_schedule calls of main, in the order of WEEK, up to the
\* first that raises: the sequences of their results.
RECURSIVE Calls(_, _, _)
Calls(df, env, k) ==
    IF k > Len(WEEK) THEN {<<>>}
    ELSE UNION {IF c.raised THEN {<<c>>}
                ELSE {<<c>> \o rest : rest \in Calls(df, env, k + 1)} :
                c \in make_schedule(df, WEEK[k], env)}

DayIndex(day) == CHOOSE k \in 1..Len(WEEK) : WEEK[k] = day

Tabs(df, env) ==
    {[raised |-> calls[Len(calls)].raised,
      branch |-> [day \in WeekDays |->
                    IF DayIndex(day) <= Len(calls) THEN calls[DayIndex(day)].branch ELSE "not run"],
      schedule |-> [day \in WeekDays |->
                    IF DayIndex(day) <= Len(calls) THEN calls[DayIndex(day)].rendered ELSE <<>>]] :
     calls \in Calls(df, env, 1)}

\* ------------------------------------------------------------------- state
VARIABLES
    t_places,            \* the table: [exists, rows]
    selected_location,   \* st.session_state["selected_location"]
    editor,              \* st.session_state["places_displayed"]: [view, cs]
    deleted_ids,         \* history: place ids removed by a row deletion and not selected anew since
    pc,                  \* "idle" between runs, "ran" when main() has just run
    trigger,             \* the user action that started the run
    places_beginning,    \* the run's locals, in the order main computes them
    table_after_merge,
    places_after_merge,
    changes,
    places_displayed,
    location_markers,
    center,
    schedule,
    branch,
    failure,             \* what failed in the run (its environment)
    outcome

vars == <<t_places, selected_location, editor, deleted_ids, pc, trigger, places_beginning,
          table_after_merge, places_after_merge, changes, places_displayed,
          location_markers, center, schedule, branch, failure, outcome>>

NoEditor == [view |-> <<>>, cs |-> {}]

NoSchedule == [day \in WeekDays |-> <<>>]
NotRun == [day \in WeekDays |-> "not run"]

NoLocals ==
    [trigger |-> "none", places_beginning |-> EmptyBag, table_after_merge |-> Dropped,
     places_after_merge |-> <<>>, changes |-> {}, places_displayed |-> <<>>,
     location_markers |-> {}, center |-> <<>>, schedule |-> NoSchedule,
     branch |-> NotRun, failure |-> NoFault, outcome |-> "none"]

SetLocals(l) ==
    /\ trigger' = l.trigger
    /\ places_beginning' = l.places_beginning
    /\ table_after_merge' = l.table_after_merge
    /\ places_after_merge' = l.places_after_merge
    /\ changes' = l.changes
    /\ places_displayed' = l.places_displayed
    /\ location_markers' = l.location_markers
    /\ center' = l.center
    /\ schedule' = l.schedule
    /\ branch' = l.branch
    /\ failure' = l.failure
    /\ outcome' = l.outcome

\* db_setup.py has run: t_places holds the seeded row.
Init ==
    /\ t_places = Table(SetToBag({SeedRow}))
    /\ selected_location = NoSelection
    /\ editor = NoEditor
    /\ deleted_ids = {}
    /\ pc = "idle"
    /\ trigger = NoLocals.trigger
    /\ places_beginning = NoLocals.places_beginning
    /\ table_after_merge = NoLocals.table_after_merge
    /\ places_after_merge = NoLocals.places_after_merge
    /\ changes = NoLocals.changes
    /\ places_displayed = NoLocals.places_displayed
    /\ location_markers = NoLocals.location_markers
    /\ center = NoLocals.center
    /\ schedule = NoLocals.schedule
    /\ branch = NoLocals.branch
    /\ failure = NoLocals.failure
    /\ outcome = NoLocals.outcome

RealIds(ids) == ids \ {"", NULL}

KnownIds == RealIds(Ids(t_places.rows)) \cup {s[1] : s \in Suggestions}

DeletedIds(view, cs) == RealIds({view[p].place_id : p \in DeletedRows(cs)})

\* The editor widget keeps its change set from one run to the next while it
\* is given the same data (its identity is its key and its arguments); given
\* other data it starts with an empty change set.
KeptChanges(view) == IF editor.view = view THEN editor.cs ELSE {}

\* What the user does to the table in one run: the kinds of entries of the
\* change set and the columns edited.  Untouched: the user leaves the editor
\* as it is.  Otherwise the user changes the editor's change set; a deleted
\* row cannot be brought back in the editor.
Untouched == [kinds |-> {}, cols |-> {}]

Offered(view, user) ==
    LET kept == KeptChanges(view)
    IN IF user.kinds = {} THEN {kept}
       ELSE {cs \in ChangeSets(view, user.cols) \ {kept} :
                /\ \A a \in cs : a[1] \in user.kinds
                /\ {a \in kept : a[1] = "delete"} \subseteq cs}

\* The editor's state after a run that leaves rows in the table: the change
\* set is kept only as long as a later run can show the editor the same data.
EditorAfter(rows, sel, view, cs) ==
    IF /\ cs # {}
       /\ \E s \in {sel, NoSelection} \cup Suggestions : Merge(rows, s) = SeqToBag(view)
    THEN [view |-> view, cs |-> cs]
    ELSE NoEditor

\* One run of main().  sel is the select box's value in this run, picked the
\* place id the user selected anew (or none), user what the user did to the
\* table, env what fails.
Pass(how, sel, picked, user, env) ==
    /\ pc = "idle"
    /\ t_places.exists
    /\ pc' = "ran"
    /\ selected_location' = sel
    /\ IF env.fault = "merge_write"
       THEN \* drop table t_places ran, create table did not
            /\ NeedsInsert(t_places.rows, sel)
            /\ t_places' = Dropped
            /\ editor' = NoEditor
            /\ deleted_ids' = deleted_ids \ picked
            /\ SetLocals([NoLocals EXCEPT !.trigger = how,
                                          !.places_beginning = t_places.rows,
                                          !.failure = env,
                                          !.outcome = "merge_write_failed"])
       ELSE \E merged \in {Merge(t_places.rows, sel)} :
            \E view \in OrderByDayTripOrder(merged) :
            \E cs \in Offered(view, user) :
            \E df \in {data_editor(view, cs)} :
            \E tabs \in Tabs(df, env) :
            \E markers \in {LocationMarkers(df)} :
              /\ env.fault = "lookup" => tabs.raised
              /\ SetLocals([trigger |-> how,
                            places_beginning |-> t_places.rows,
                            table_after_merge |-> Table(merged),
                            places_after_merge |-> view,
                            changes |-> cs,
                            places_displayed |-> df,
                            location_markers |-> markers,
                            center |-> MapCenter(markers),
                            schedule |-> tabs.schedule,
                            branch |-> tabs.branch,
                            failure |-> env,
                            outcome |-> IF tabs.raised THEN "lookup_failed"
                                        ELSE IF env.fault = "end_write" THEN "end_write_failed"
                                        ELSE "ok"])
              /\ IF tabs.raised
                 THEN \* the exception ends the run before the final write
                      /\ t_places' = Table(merged)
                      /\ editor' = EditorAfter(merged, sel, view, cs)
                      /\ deleted_ids' = deleted_ids \ picked
                 ELSE IF env.fault = "end_write"
                 THEN \* drop table t_places ran, create table did not
                      /\ t_places' = Dropped
                      /\ editor' = NoEditor
                      /\ deleted_ids' = deleted_ids \ picked
                 ELSE /\ t_places' = Table(SeqToBag(df))
                      /\ editor' = EditorAfter(SeqToBag(df), sel, view, cs)
                      /\ deleted_ids' = (deleted_ids \ picked) \cup DeletedIds(view, cs)

\* A rerun that changes no widget (a map interaction, a tab click).
Rerun(env) == Pass("rerun", selected_location, {}, Untouched, env)

\* A new keyword: the select box is built anew and holds nothing.
NewKeyword(env) == Pass("keyword", NoSelection, {}, Untouched, env)

\* The user picks a suggestion.
PickSuggestion(s, env) == Pass("pick", s, {s[1]}, Untouched, env)

\* The user changes the table in the editor.
EditTable(user, env) == Pass("edit", selected_location, {}, user, env)

\* A run after a failed write: "select ... from t_places" raises at once.
RunWithoutTable ==
    /\ pc = "idle"
    /\ ~t_places.exists
    /\ pc' = "ran"
    /\ SetLocals([NoLocals EXCEPT !.trigger = "rerun", !.outcome = "no_table"])
    /\ UNCHANGED <<t_places, selected_location, editor, deleted_ids>>

\* main() returns: its locals are gone, the table and the session stay.
EndOfRun ==
    /\ pc = "ran"
    /\ pc' = "idle"
    /\ SetLocals(NoLocals)
    /\ UNCHANGED <<t_places, selected_location, editor, deleted_ids>>

\* Every kind of change and every fault.  The category of a row is set when
\* the row is added; no step of a run reads it but the marker's icon.
AnyChange == [kinds |-> {"edit", "delete", "add"}, cols |-> EditableColumns \ {"category"}]

Next ==
    \/ \E env \in Envs(KnownIds) : Rerun(env)
    \/ \E env \in Envs(KnownIds) : NewKeyword(env)
    \/ \E env \in Envs(KnownIds) : \E s \in Suggestions : PickSuggestion(s, env)
    \/ \E env \in Envs(KnownIds) : EditTable(AnyChange, env)
    \/ RunWithoutTable
    \/ EndOfRun

Spec == Init /\ [][Next]_vars

\* The same planner with a store and providers that do not fail, the user
\* curating the list before any day is assigned: places are accepted, switched
\* on and off and deleted.
Curating == [kinds |-> {"edit", "delete"}, cols |-> {"is_active"}]

NextCurating ==
    \/ Rerun(NoFault)
    \/ NewKeyword(NoFault)
    \/ \E s \in Suggestions : PickSuggestion(s, NoFault)
    \/ EditTable(Curating, NoFault)
    \/ EndOfRun

SpecCurating == Init /\ [][NextCurating]_vars

\* A table the planner reaches when nine suggestions have been accepted and
\* each given the day Monday and its own trip order: one place more than the
\* day tab has columns.
BusyPlaces == 2 * Cardinality({"lat", "lon", "name", "place_id"}) + 1

BusyRow(i) == [NewEntry(Suggestion(i)) EXCEPT !.day = "Monday", !.trip_order = i]

InitBusyDay ==
    /\ t_places = Table(SetToBag({SeedRow} \cup {BusyRow(i) : i \in 1..BusyPlaces}))
    /\ selected_location = NoSelection
    /\ editor = NoEditor
    /\ deleted_ids = {}
    /\ pc = "idle"
    /\ trigger = NoLocals.trigger
    /\ places_beginning = NoLocals.places_beginning
    /\ table_after_merge = NoLocals.table_after_merge
    /\ places_after_merge = NoLocals.places_after_merge
    /\ changes = NoLocals.changes
    /\ places_displayed = NoLocals.places_displayed
    /\ location_markers = NoLocals.location_markers
    /\ center = NoLocals.center
    /\ schedule = NoLocals.schedule
    /\ branch = NoLocals.branch
    /\ failure = NoLocals.failure
    /\ outcome = NoLocals.outcome

\* On the busy day the user adds rows in the editor.
AddingRows == [kinds |-> {"add"}, cols |-> {}]

NextBusyDay ==
    \/ \E env \in Envs(KnownIds) : Rerun(env)
    \/ \E env \in Envs(KnownIds) : NewKeyword(env)
    \/ \E env \in Envs(KnownIds) : \E s \in Suggestions : PickSuggestion(s, env)
    \/ \E env \in Envs(KnownIds) : EditTable(AddingRows, env)
    \/ RunWithoutTable
    \/ EndOfRun

SpecBusyDay == InitBusyDay /\ [][NextBusyDay]_vars

\* ================================================================== claims
\* The formulas below are stated over the state a run of main() leaves
\* (pc = "ran"): the table, the session state and the run's locals.

\* ---- C1
\* C1: in every reachable state of t_places no two records have the same
\* place_id.
C1_UniquePlaceId ==
    t_places.exists =>
        \A r \in BagToSet(t_places.rows) :
            /\ CopiesIn(r, t_places.rows) = 1
            /\ \A q \in BagToSet(t_places.rows) : q.place_id = r.place_id => q = r

\* ---- C2
\* C2: when the selected place's id already belongs to a record of the table,
\* the merge step adds no row and changes no field of any record, and a run
\* that changes nothing else leaves the table as it found it.
C2_MergeKeepsExisting ==
    (/\ pc = "ran"
     /\ table_after_merge.exists
     /\ selected_location # NoSelection
     /\ selected_location[1] \in Ids(places_beginning))
    => /\ table_after_merge.rows = places_beginning
       /\ (changes = {} /\ outcome = "ok") => t_places.rows = places_beginning

\* C2: a place is picked whose record is in the table, switched off by the
\* user, and the run completes.
C2_PickedAgain ==
    /\ pc = "ran"
    /\ trigger = "pick"
    /\ outcome = "ok"
    /\ \E r \in BagToSet(places_beginning) :
          r.place_id = selected_location[1] /\ r.is_active = "false"

\* ---- C3
\* C3: accepting a place whose id is in no record gives the previous record
\* set plus exactly one record with the candidate's place_id, name, address,
\* lat and lon, is_active true, day "", trip_order 1 and category ""; every
\* record stored before is still there, unchanged.
C3_FreshAcceptAddsOne ==
    (/\ pc = "ran"
     /\ table_after_merge.exists
     /\ selected_location # NoSelection
     /\ selected_location[1] \notin Ids(places_beginning))
    => LET new == [place_id |-> selected_location[1],
                   name |-> selected_location[2],
                   address |-> selected_location[3],
                   lat |-> selected_location[4],
                   lon |-> selected_location[5],
                   is_active |-> "true",
                   day |-> "",
                   trip_order |-> 1,
                   category |-> ""]
       IN /\ BagToSet(table_after_merge.rows) = BagToSet(places_beginning) \cup {new}
          /\ CopiesIn(new, table_after_merge.rows) = 1
          /\ (changes = {} /\ outcome = "ok") => t_places = table_after_merge

\* C3: a place new to a table that holds a record is picked, and the run
\* completes.
C3_FreshPick ==
    /\ pc = "ran"
    /\ trigger = "pick"
    /\ outcome = "ok"
    /\ places_beginning # EmptyBag
    /\ selected_location[1] \notin Ids(places_beginning)

\* ---- C4
\* C4: a table write that fails (in the merge step or at the end of the run)
\* leaves the table holding the complete previous snapshot.
C4_WriteAllOrNothing ==
    /\ outcome = "merge_write_failed" => t_places = Table(places_beginning)
    /\ outcome = "end_write_failed" => t_places = table_after_merge

RECURSIVE InsertByTripOrder(_, _)
InsertByTripOrder(r, s) ==
    IF s = <<>> THEN <<r>>
    ELSE IF OrderBefore(Head(s).trip_order, r.trip_order)
         THEN <<Head(s)>> \o InsertByTripOrder(r, Tail(s))
         ELSE <<r>> \o s

\* Ascending trip_order, ties in the order of rows.
RECURSIVE StableByTripOrder(_)
StableByTripOrder(rows) ==
    IF rows = <<>> THEN <<>>
    ELSE InsertByTripOrder(Head(rows), StableByTripOrder(Tail(rows)))

DaySchedule(df, day) ==
    LET rows == StableByTripOrder(SelectDay(df, day))
    IN [i \in 1..Len(rows) |-> <<rows[i].name, rows[i].place_id, rows[i].lat, rows[i].lon>>]

\* C7: for each weekday the schedule rendered is the records of that day in
\* ascending trip_order, ties in storage order; a record with day "" is in
\* no schedule.
C7_ScheduleOfDay ==
    (pc = "ran" /\ outcome \in {"ok", "end_write_failed"})
    => \A d \in WeekDays : schedule[d] = DaySchedule(places_displayed, d)

\* ---- C8
\* C8: make_schedule takes the "No schedule yet" branch for a day exactly
\* when no record of the edited view has that day.
C8_NoScheduleYetBranch ==
    pc = "ran"
    => \A d \in WeekDays :
          branch[d] # "not run"
          => (branch[d] = "No schedule yet" <=> SelectDay(places_displayed, d) = <<>>)

\* ---- C9
\* C9: when the station lookup fails for one place, every other place of its
\* day is still rendered, every day tab still runs and the edited view is
\* still written to the table.
C9_LookupFailureContained ==
    (pc = "ran" /\ failure.fault = "lookup")
    => /\ \A d \in WeekDays : branch[d] # "not run"
       /\ \A d \in WeekDays :
             LET places == DaySchedule(places_displayed, d)
             IN \A i \in 1..Len(places) :
                   places[i][2] # failure.place
                   => \E j \in 1..Len(schedule[d]) : schedule[d][j] = places[i]
       /\ t_places = Table(SeqToBag(places_displayed))

\* ---- C10
\* C10: a place whose row a run has deleted from the table is in the table
\* after no later run, unless the user has selected it anew.
C10_DeletedStaysDeleted ==
    \A x \in deleted_ids : x \notin Ids(t_places.rows)

====
